---- MODULE Spec2Model ----
(***************************************************************************)
(* The cartridge binary codec of tinlib (src/tinlib/src/cartridge), and    *)
(* its fixed-size containers (Screen, Map, Glyph, Palette, Font) with the  *)
(* iterator over their coords (src/tinlib/src/common/coord.rs).            *)
(*                                                                         *)
(* Byte vectors (Vec<u8>, String::as_bytes, the contents of a Cursor) are  *)
(* kept run-length compressed: a vector is a sequence of runs <<b, n>>,    *)
(* n >= 1 copies of the byte b, no two neighbouring runs with the same b.  *)
(* The representation is canonical, so equality of two values is equality  *)
(* of the byte vectors they stand for, and a 245760-byte cover costs one   *)
(* run.  Every operation below is defined on the bytes, not on the runs.   *)
(***************************************************************************)
EXTENDS Integers, Sequences, FiniteSets, TLC

VARIABLES
  arg,       \* the byte a caller holds (input of ChunkType::try_from)
  hdr,       \* the CartridgeHeader a caller holds (input of its save)
  cart,      \* the Cartridge a caller holds (input of Cartridge::save)
  chunk,     \* the Chunk a caller holds (input of Chunk::save)
  stream,    \* the bytes behind the reader (input of the from_reader calls)
  wcap,      \* capacity of the writer's buffer; NoLimit: a Cursor over a Vec
  call,      \* the operation that ran last
  ret,       \* what it returned
  writer,    \* the bytes the last save call left in its (fresh) writer
  rpos,      \* the reader's position after the last from_reader call
  prev,      \* the Cartridge::save calls so far: how many, the cartridge
             \* before the first, and ret and writer of the one before the last
  grid,      \* the container a caller holds (Screen, Map, Glyph, Palette, Font)
  gprev,     \* the container before the last call on it
  op,        \* the operation on the container or its iterator that ran last
  at,        \* the coord or index that operation was given
  val,       \* the value it was given (set calls)
  out,       \* what it returned
  before,    \* op, at, val and out of the call before it
  iter,      \* the CoordIter a caller holds
  count,     \* how many times next was called on it
  sets       \* how many set calls the container has taken

\* The state of the calls on the cartridge codec.
codec == <<arg, hdr, cart, chunk, stream, wcap, call, ret, writer, rpos, prev>>

\* The state of the calls on the containers.
machine == <<grid, gprev, op, at, val, out, before, iter, count, sets>>

vars == <<codec, machine>>

----------------------------------------------------------------------------
(* Byte vectors *)

Byte == 0..255

RECURSIVE BLen(_)
BLen(s) == IF s = <<>> THEN 0 ELSE Head(s)[2] + BLen(Tail(s))

Rep(b, n) == IF n <= 0 THEN <<>> ELSE << <<b, n>> >>

One(b) == Rep(b, 1)

Cat(s, t) ==
  IF s = <<>> THEN t
  ELSE IF t = <<>> THEN s
  ELSE IF s[Len(s)][1] = t[1][1]
       THEN SubSeq(s, 1, Len(s) - 1)
              \o << <<t[1][1], s[Len(s)][2] + t[1][2]>> >>
              \o Tail(t)
       ELSE s \o t

RECURSIVE Take(_, _)
\* The first k bytes of s (all of s when it is shorter).
Take(s, k) ==
  IF k <= 0 \/ s = <<>> THEN <<>>
  ELSE IF Head(s)[2] >= k THEN << <<Head(s)[1], k>> >>
  ELSE <<Head(s)>> \o Take(Tail(s), k - Head(s)[2])

RECURSIVE Drop(_, _)
\* s without its first k bytes.
Drop(s, k) ==
  IF k <= 0 \/ s = <<>> THEN s
  ELSE IF Head(s)[2] > k THEN << <<Head(s)[1], Head(s)[2] - k>> >> \o Tail(s)
  ELSE Drop(Tail(s), k - Head(s)[2])

\* The bytes at the 0-based positions from .. from + n - 1.
Slice(s, from, n) == Take(Drop(s, from), n)

\* The byte at the 0-based position i < BLen(s).
ByteAt(s, i) == Drop(s, i)[1][1]

RECURSIVE Bytes(_)
\* The byte vector of a literal sequence of bytes.
Bytes(q) == IF q = <<>> THEN <<>> ELSE Cat(One(Head(q)), Bytes(Tail(q)))

RECURSIVE Flat(_)
\* The plain sequence of bytes of a (short) byte vector.
Flat(s) ==
  IF s = <<>> THEN <<>>
  ELSE [i \in 1..Head(s)[2] |-> Head(s)[1]] \o Flat(Tail(s))

----------------------------------------------------------------------------
(* Integer widths *)

\* `as u8` that stops at the greatest value instead of wrapping.
AsU8Saturated(n) == IF n > 255 THEN 255 ELSE n

AsU8(n) == n % 256

AsU16(n) == n % 65536

\* n mod 2^32, written without the number 2^32.
AsU32(n) == ((n \div 65536) % 65536) * 65536 + (n % 65536)

\* byteorder: the little-endian encodings.
Le16(v) == Cat(One(v % 256), One((v \div 256) % 256))

Le32(v) ==
  Cat(Le16(v % 65536), Le16((v \div 65536) % 65536))

RECURSIVE FromLe(_)
\* byteorder: the number that the bytes s encode, little end first.
FromLe(s) == IF s = <<>> THEN 0 ELSE s[1][1] + 256 * FromLe(Drop(s, 1))

----------------------------------------------------------------------------
(* Results and errors (cartridge/error.rs) *)

Ok(v) == [ok |-> TRUE, val |-> v]

Err(e) == [ok |-> FALSE, err |-> e]

InvalidChunkType(b) == [kind |-> "InvalidChunkType", value |-> b]

InvalidChunkSize(t, n, valid) ==
  [kind |-> "InvalidChunkSize", type |-> t, size |-> n, expected |-> valid]

InvalidChunkMaxSize(t, n, max) ==
  [kind |-> "InvalidChunkMaxSize", type |-> t, size |-> n, expected |-> max]

MismatchedChunkSizes(t, h, d) ==
  [kind |-> "MismatchedChunkSizes", type |-> t, header |-> h, data |-> d]

FromUtf8 == [kind |-> "FromUtf8"]

Io == [kind |-> "Io"]

----------------------------------------------------------------------------
(* std::io::Cursor as a reader and as a writer *)

\* The outcome of a call on a reader, with the reader's position after it.
ROk(v, p) == [ok |-> TRUE, val |-> v, pos |-> p]

RErr(e, p) == [ok |-> FALSE, err |-> e, pos |-> p]

\* The outcome of a call on a writer, with the bytes the writer holds after it.
WOk(b) == [ok |-> TRUE, val |-> <<>>, buf |-> b]

WErr(e, b) == [ok |-> FALSE, err |-> e, buf |-> b]

\* A Cursor over a Vec<u8> grows on demand.
NoLimit == -1

\* How many of n bytes fit into a writer of capacity cap that holds buf.
Room(buf, cap, n) ==
  IF cap = NoLimit \/ cap - BLen(buf) >= n THEN n
  ELSE IF cap - BLen(buf) <= 0 THEN 0 ELSE cap - BLen(buf)

Written(buf, bytes, room) ==
  IF room = BLen(bytes) THEN WOk(Cat(buf, bytes))
  ELSE WErr(Io, Cat(buf, Take(bytes, room)))

\* Write::write_all (write_u8, write_u16, write_u32): the bytes that fit are
\* written, and the call fails (WriteZero) when some do not.
WriteAll(buf, cap, bytes) == Written(buf, bytes, Room(buf, cap, BLen(bytes)))

RECURSIVE WriteEach(_, _, _)
\* `w.write_all(p)?` for each p of parts in turn, after the outcome w.
WriteEach(w, cap, parts) ==
  IF ~w.ok \/ parts = <<>> THEN w
  ELSE WriteEach(WriteAll(w.buf, cap, Head(parts)), cap, Tail(parts))

\* Read::read_exact of n bytes at position pos: all n bytes or UnexpectedEof.
ReadExact(buf, pos, n) ==
  IF BLen(buf) - pos >= n THEN ROk(Slice(buf, pos, n), pos + n)
  ELSE RErr(Io, pos)

LeValue(r) == IF r.ok THEN ROk(FromLe(r.val), r.pos) ELSE r

\* read_u8, read_u16::<LittleEndian>, read_u32::<LittleEndian> for n = 1, 2, 4
ReadLe(buf, pos, n) == LeValue(ReadExact(buf, pos, n))

ReadU8(buf, pos) == ReadLe(buf, pos, 1)

ReadU16(buf, pos) == ReadLe(buf, pos, 2)

ReadU32(buf, pos) == ReadLe(buf, pos, 4)

----------------------------------------------------------------------------
(* String::from_utf8 *)

IsCont(b) == b \in 128..191

RECURSIVE Utf8From(_, _)
\* q[i..] is a sequence of well-formed UTF-8 characters.
Utf8From(q, i) ==
  LET n == Len(q)
      b == q[i]
      C(k) == i + k <= n /\ IsCont(q[i + k])
  IN  IF i > n THEN TRUE
      ELSE IF b < 128 THEN Utf8From(q, i + 1)
      ELSE IF b \in 194..223 THEN C(1) /\ Utf8From(q, i + 2)
      ELSE IF b = 224 THEN C(1) /\ q[i + 1] >= 160 /\ C(2) /\ Utf8From(q, i + 3)
      ELSE IF b = 237 THEN C(1) /\ q[i + 1] <= 159 /\ C(2) /\ Utf8From(q, i + 3)
      ELSE IF b \in 225..239 THEN C(1) /\ C(2) /\ Utf8From(q, i + 3)
      ELSE IF b = 240
        THEN C(1) /\ q[i + 1] >= 144 /\ C(2) /\ C(3) /\ Utf8From(q, i + 4)
      ELSE IF b \in 241..243 THEN C(1) /\ C(2) /\ C(3) /\ Utf8From(q, i + 4)
      ELSE IF b = 244
        THEN C(1) /\ q[i + 1] <= 143 /\ C(2) /\ C(3) /\ Utf8From(q, i + 4)
      ELSE FALSE

RECURSIVE Squeeze(_)
\* A vector that is well-formed UTF-8 exactly when s is: a run of one ASCII
\* byte is well-formed whatever its length, and a run of four or more copies
\* of a byte >= 128 is ill-formed whatever its length.
Squeeze(s) ==
  IF s = <<>> THEN <<>>
  ELSE <<  <<Head(s)[1],
             IF Head(s)[1] < 128 THEN 1
             ELSE IF Head(s)[2] > 4 THEN 4 ELSE Head(s)[2]>>  >>
       \o Squeeze(Tail(s))

IsUtf8(s) == Utf8From(Flat(Squeeze(s)), 1)

\* String::from_utf8 on the bytes a read_exact returned.
Utf8Checked(r) ==
  IF ~r.ok THEN r ELSE IF IsUtf8(r.val) THEN r ELSE RErr(FromUtf8, r.pos)

\* `vec![0u8; n]`, `read_exact`, `String::from_utf8`
ReadString(buf, pos, n) == Utf8Checked(ReadExact(buf, pos, n))

----------------------------------------------------------------------------
(* cartridge/chunk.rs *)

END_CHUNK_VALID_SIZE == <<0>>
COVER_CHUNK_VALID_SIZES == <<0, 245760>>
FONT_CHUNK_VALID_SIZES == <<0, 16384>>
PALETTE_CHUNK_VALID_SIZES == <<0, 4, 8, 16>>
CODE_CHUNK_MAX_SIZE == 131072
MAP_CHUNK_MAX_SIZE == 122880

\* <[usize]>::contains
Contains(sizes, n) == \E i \in 1..Len(sizes) : sizes[i] = n

ChunkType == {"End", "Cover", "Code", "Font", "Palette", "Map"}

\* The discriminant of a ChunkType: `chunk_type as u8`.
TypeTag(t) ==
  CASE t = "End" -> 0
    [] t = "Cover" -> 1
    [] t = "Code" -> 2
    [] t = "Font" -> 3
    [] t = "Palette" -> 4
    [] t = "Map" -> 5

\* TryFrom with a catch-all arm that ends the stream instead of failing.
TryFromLenient(value) ==
  CASE value = 0 -> Ok("End")
    [] value = 1 -> Ok("Cover")
    [] value = 2 -> Ok("Code")
    [] value = 3 -> Ok("Font")
    [] value = 4 -> Ok("Palette")
    [] value = 5 -> Ok("Map")
    [] OTHER -> Ok("End")

\* impl TryFrom<u8> for ChunkType
TryFrom(value) ==
  CASE value = 0 -> Ok("End")
    [] value = 1 -> Ok("Cover")
    [] value = 2 -> Ok("Code")
    [] value = 3 -> Ok("Font")
    [] value = 4 -> Ok("Palette")
    [] value = 5 -> Ok("Map")
    [] OTHER -> Err(InvalidChunkType(value))

ChunkHeaderNew(chunk_type, size) ==
  [chunk_type |-> chunk_type, size |-> AsU32(size)]

ChunkHeaderDefault == [chunk_type |-> "End", size |-> 0]

ChunkHeaderSized(tag, chunk_type, size) ==
  IF ~chunk_type.ok THEN RErr(chunk_type.err, tag.pos)
  ELSE IF ~size.ok THEN size
  ELSE ROk([chunk_type |-> chunk_type.val, size |-> size.val], size.pos)

ChunkHeaderTyped(buf, tag) ==
  IF ~tag.ok THEN tag
  ELSE ChunkHeaderSized(tag, TryFrom(tag.val), ReadU32(buf, tag.pos))

\* ChunkHeader::from_reader at position pos of buf: the tag byte, the type
\* it stands for, the size.
ChunkHeaderFromReader(buf, pos) == ChunkHeaderTyped(buf, ReadU8(buf, pos))

\* ChunkHeader::save into a writer of capacity cap that holds buf.
ChunkHeaderSave(header, buf, cap) ==
  WriteEach(WOk(buf), cap,
            <<One(TypeTag(header.chunk_type)), Le32(header.size)>>)

ChunkNew(chunk_type, data) ==
  [header |-> ChunkHeaderNew(chunk_type, BLen(data)), data |-> data]

ChunkDefault == [header |-> ChunkHeaderDefault, data |-> <<>>]

ValidateEnd(c) ==
  IF Contains(END_CHUNK_VALID_SIZE, BLen(c.data))
  THEN Err(InvalidChunkSize(c.header.chunk_type, BLen(c.data),
                            END_CHUNK_VALID_SIZE))
  ELSE Ok(<<>>)

ValidateCover(c) ==
  IF Contains(COVER_CHUNK_VALID_SIZES, BLen(c.data))
  THEN Err(InvalidChunkSize(c.header.chunk_type, BLen(c.data),
                            COVER_CHUNK_VALID_SIZES))
  ELSE Ok(<<>>)

ValidateCode(c) ==
  IF BLen(c.data) <= CODE_CHUNK_MAX_SIZE
  THEN Err(InvalidChunkMaxSize(c.header.chunk_type, BLen(c.data),
                               CODE_CHUNK_MAX_SIZE))
  ELSE Ok(<<>>)

ValidateFont(c) ==
  IF Contains(FONT_CHUNK_VALID_SIZES, BLen(c.data))
  THEN Err(InvalidChunkSize(c.header.chunk_type, BLen(c.data),
                            FONT_CHUNK_VALID_SIZES))
  ELSE Ok(<<>>)

ValidatePalette(c) ==
  IF Contains(PALETTE_CHUNK_VALID_SIZES, BLen(c.data))
  THEN Err(InvalidChunkSize(c.header.chunk_type, BLen(c.data),
                            PALETTE_CHUNK_VALID_SIZES))
  ELSE Ok(<<>>)

ValidateMap(c) ==
  IF BLen(c.data) <= MAP_CHUNK_MAX_SIZE
  THEN Err(InvalidChunkMaxSize(c.header.chunk_type, BLen(c.data),
                               MAP_CHUNK_MAX_SIZE))
  ELSE Ok(<<>>)

\* Chunk::validate with the check of the type first and the comparison of
\* the header size with the payload length last.
ValidateTypeFirst(c) ==
  IF ~(CASE c.header.chunk_type = "End" -> ValidateEnd(c)
         [] c.header.chunk_type = "Cover" -> ValidateCover(c)
         [] c.header.chunk_type = "Code" -> ValidateCode(c)
         [] c.header.chunk_type = "Font" -> ValidateFont(c)
         [] c.header.chunk_type = "Palette" -> ValidatePalette(c)
         [] c.header.chunk_type = "Map" -> ValidateMap(c)).ok
  THEN CASE c.header.chunk_type = "End" -> ValidateEnd(c)
         [] c.header.chunk_type = "Cover" -> ValidateCover(c)
         [] c.header.chunk_type = "Code" -> ValidateCode(c)
         [] c.header.chunk_type = "Font" -> ValidateFont(c)
         [] c.header.chunk_type = "Palette" -> ValidatePalette(c)
         [] c.header.chunk_type = "Map" -> ValidateMap(c)
  ELSE IF c.header.size # AsU32(BLen(c.data))
  THEN Err(MismatchedChunkSizes(c.header.chunk_type, c.header.size,
                                BLen(c.data)))
  ELSE Ok(<<>>)

\* Chunk::validate
Validate(c) ==
  IF c.header.size # AsU32(BLen(c.data))
  THEN Err(MismatchedChunkSizes(c.header.chunk_type, c.header.size,
                                BLen(c.data)))
  ELSE CASE c.header.chunk_type = "End" -> ValidateEnd(c)
         [] c.header.chunk_type = "Cover" -> ValidateCover(c)
         [] c.header.chunk_type = "Code" -> ValidateCode(c)
         [] c.header.chunk_type = "Font" -> ValidateFont(c)
         [] c.header.chunk_type = "Palette" -> ValidatePalette(c)
         [] c.header.chunk_type = "Map" -> ValidateMap(c)

ChunkChecked(c, v, pos) == IF ~v.ok THEN RErr(v.err, pos) ELSE ROk(c, pos)

ChunkValidated(buf, header, data) ==
  IF ~data.ok THEN RErr(Io, BLen(buf))
  ELSE ChunkChecked([header |-> header, data |-> data.val],
                    Validate([header |-> header, data |-> data.val]),
                    data.pos)

ChunkPayload(buf, header) ==
  IF ~header.ok THEN header
  ELSE ChunkValidated(buf, header.val,
                      ReadExact(buf, header.pos, header.val.size))

\* Chunk::from_reader at position pos of buf: the header, then header.size
\* bytes read one by one (the first missing byte fails the call, with every
\* byte before it consumed), then validate.
ChunkFromReader(buf, pos) == ChunkPayload(buf, ChunkHeaderFromReader(buf, pos))

\* Chunk::save writing the header before it looks at the outcome of
\* validate.
ChunkWriteFirst(c, v, buf, cap) ==
  IF ~v.ok THEN WErr(v.err, ChunkHeaderSave(c.header, buf, cap).buf)
  ELSE WriteEach(ChunkHeaderSave(c.header, buf, cap), cap, <<c.data>>)

ChunkWrite(c, v, buf, cap) ==
  IF ~v.ok THEN WErr(v.err, buf)
  ELSE WriteEach(ChunkHeaderSave(c.header, buf, cap), cap, <<c.data>>)

\* Chunk::save into a writer of capacity cap that holds buf: validate, the
\* header, then the payload byte by byte (the first byte that does not fit
\* fails the call, with every byte before it written).
ChunkSave(c, buf, cap) == ChunkWrite(c, Validate(c), buf, cap)

----------------------------------------------------------------------------
(* cartridge/mod.rs *)

DEFAULT_CART_FILE_VERSION == 1
DEFAULT_NAME_SIZE == 64
DEFAULT_DESC_SIZE == 512
DEFAULT_AUTHOR_SIZE == 64
DEFAULT_VERSION == 1

CartridgeHeaderDefault ==
  [cart_version |-> DEFAULT_CART_FILE_VERSION,
   name_size    |-> DEFAULT_NAME_SIZE,
   desc_size    |-> DEFAULT_DESC_SIZE,
   author_size  |-> DEFAULT_AUTHOR_SIZE]

CartridgeHeaderRead(cart_version, name_size, desc_size, author_size) ==
  IF ~cart_version.ok THEN cart_version
  ELSE IF ~name_size.ok THEN name_size
  ELSE IF ~desc_size.ok THEN desc_size
  ELSE IF ~author_size.ok THEN author_size
  ELSE ROk([cart_version |-> cart_version.val,
            name_size    |-> name_size.val,
            desc_size    |-> desc_size.val,
            author_size  |-> author_size.val],
           author_size.pos)

\* CartridgeHeader::from_reader reading author_size before desc_size.
CartridgeHeaderFromReaderSwapped(buf, pos) ==
  CartridgeHeaderRead(ReadU8(buf, pos), ReadU8(buf, pos + 1),
                      ReadU16(buf, pos + 3), ReadU8(buf, pos + 2))

\* CartridgeHeader::from_reader at position pos of buf: the four fields are
\* read one after the other, so each stands at a fixed offset from pos, and
\* the first read that fails fails the call.
CartridgeHeaderFromReader(buf, pos) ==
  CartridgeHeaderRead(ReadU8(buf, pos), ReadU8(buf, pos + 1),
                      ReadU16(buf, pos + 2), ReadU8(buf, pos + 4))

\* CartridgeHeader::save writing the sizes of CartridgeHeader::default in
\* place of the sizes of the header it is called on.
CartridgeHeaderSaveDefaults(header, buf, cap) ==
  WriteEach(WOk(buf), cap,
            <<One(header.cart_version), One(DEFAULT_NAME_SIZE),
              Le16(DEFAULT_DESC_SIZE), One(DEFAULT_AUTHOR_SIZE)>>)

\* CartridgeHeader::save into a writer of capacity cap that holds buf.
CartridgeHeaderSave(header, buf, cap) ==
  WriteEach(WOk(buf), cap,
            <<One(header.cart_version), One(header.name_size),
              Le16(header.desc_size), One(header.author_size)>>)

CartridgeDefault ==
  [version |-> DEFAULT_VERSION,
   name    |-> <<>>,
   desc    |-> <<>>,
   author  |-> <<>>,
   cover   |-> <<>>,
   font    |-> <<>>,
   palette |-> <<>>,
   map     |-> <<>>,
   code    |-> <<>>]

RECURSIVE ReadChunks(_, _, _)
\* The loop of Cartridge::from_reader keeping the first chunk of a type: a
\* field that already holds a payload is not assigned again.
ChunkIntoFirst(buf, c, ch) ==
  IF ~ch.ok THEN ch
  ELSE CASE ch.val.header.chunk_type = "End" -> ROk(c, ch.pos)
         [] ch.val.header.chunk_type = "Cover" ->
              ReadChunks(buf, ch.pos,
                         IF c.cover # <<>> THEN c
                         ELSE [c EXCEPT !.cover = ch.val.data])
         [] ch.val.header.chunk_type = "Code" ->
              IF ~IsUtf8(ch.val.data) THEN RErr(FromUtf8, ch.pos)
              ELSE ReadChunks(buf, ch.pos,
                              IF c.code # <<>> THEN c
                              ELSE [c EXCEPT !.code = ch.val.data])
         [] ch.val.header.chunk_type = "Font" ->
              ReadChunks(buf, ch.pos,
                         IF c.font # <<>> THEN c
                         ELSE [c EXCEPT !.font = ch.val.data])
         [] ch.val.header.chunk_type = "Palette" ->
              ReadChunks(buf, ch.pos,
                         IF c.palette # <<>> THEN c
                         ELSE [c EXCEPT !.palette = ch.val.data])
         [] ch.val.header.chunk_type = "Map" ->
              ReadChunks(buf, ch.pos,
                         IF c.map # <<>> THEN c
                         ELSE [c EXCEPT !.map = ch.val.data])

\* One turn of the loop of Cartridge::from_reader on the outcome ch of
\* Chunk::from_reader, c the cartridge built so far.
ChunkInto(buf, c, ch) ==
  IF ~ch.ok THEN ch
  ELSE CASE ch.val.header.chunk_type = "End" -> ROk(c, ch.pos)
         [] ch.val.header.chunk_type = "Cover" ->
              ReadChunks(buf, ch.pos, [c EXCEPT !.cover = ch.val.data])
         [] ch.val.header.chunk_type = "Code" ->
              IF ~IsUtf8(ch.val.data) THEN RErr(FromUtf8, ch.pos)
              ELSE ReadChunks(buf, ch.pos, [c EXCEPT !.code = ch.val.data])
         [] ch.val.header.chunk_type = "Font" ->
              ReadChunks(buf, ch.pos, [c EXCEPT !.font = ch.val.data])
         [] ch.val.header.chunk_type = "Palette" ->
              ReadChunks(buf, ch.pos, [c EXCEPT !.palette = ch.val.data])
         [] ch.val.header.chunk_type = "Map" ->
              ReadChunks(buf, ch.pos, [c EXCEPT !.map = ch.val.data])

\* The loop of Cartridge::from_reader, with the reader at position pos.
ReadChunks(buf, pos, c) == ChunkInto(buf, c, ChunkFromReader(buf, pos))

CartridgeAuthorRead(buf, c, author) ==
  IF ~author.ok THEN author
  ELSE ReadChunks(buf, author.pos, [c EXCEPT !.author = author.val])

CartridgeDescRead(buf, header, c, desc) ==
  IF ~desc.ok THEN desc
  ELSE CartridgeAuthorRead(buf, [c EXCEPT !.desc = desc.val],
                           ReadString(buf, desc.pos, header.author_size))

CartridgeNameRead(buf, header, c, name) ==
  IF ~name.ok THEN name
  ELSE CartridgeDescRead(buf, header, [c EXCEPT !.name = name.val],
                         ReadString(buf, name.pos, header.desc_size))

CartridgeVersionRead(buf, header, version) ==
  IF ~version.ok THEN version
  ELSE CartridgeNameRead(buf, header,
                         [CartridgeDefault EXCEPT !.version = version.val],
                         ReadString(buf, version.pos, header.name_size))

CartridgeHeaderDone(buf, header) ==
  IF ~header.ok THEN header
  ELSE CartridgeVersionRead(buf, header.val, ReadU8(buf, header.pos))

\* Cartridge::from_reader on a reader at position pos of buf: the header,
\* the version byte, name, desc and author, then the chunks up to End.
CartridgeFromReader(buf, pos) ==
  CartridgeHeaderDone(buf, CartridgeHeaderFromReader(buf, pos))

\* The vector `chunks` of Cartridge::save: the five fields, cloned, in the
\* order of emission.
CartridgeChunks(c) ==
  << <<c.cover, "Cover">>,
     <<c.code, "Code">>,
     <<c.font, "Font">>,
     <<c.palette, "Palette">>,
     <<c.map, "Map">> >>

RECURSIVE SaveChunks(_, _, _)
\* The for loop of Cartridge::save over the pairs with a non-empty payload,
\* after the outcome w of the writes before it.
SaveChunks(w, chunks, cap) ==
  IF ~w.ok \/ chunks = <<>> THEN w
  ELSE IF Head(chunks)[1] = <<>> THEN SaveChunks(w, Tail(chunks), cap)
  ELSE SaveChunks(ChunkSave(ChunkNew(Head(chunks)[2], Head(chunks)[1]),
                            w.buf, cap),
                  Tail(chunks), cap)

\* Cartridge::save closing the stream with an End chunk whatever became of
\* the chunks before it.
SaveEndAlways(w, cap) ==
  IF ~w.ok THEN WErr(w.err, Cat(w.buf, Bytes(<<0, 0, 0, 0, 0>>)))
  ELSE ChunkSave(ChunkDefault, w.buf, cap)

\* The closing `Chunk::default().save(writer)?` of Cartridge::save.
SaveEnd(w, cap) == IF ~w.ok THEN w ELSE ChunkSave(ChunkDefault, w.buf, cap)

\* Cartridge::save taking the fields it writes out of the cartridge instead
\* of cloning them.
SelfAfterSaveTaken(c) ==
  [c EXCEPT !.cover = <<>>, !.code = <<>>, !.font = <<>>, !.palette = <<>>,
            !.map = <<>>]

\* What Cartridge::save leaves of the cartridge it is called on: it borrows
\* self and clones every field it writes.
SelfAfterSave(c) == c

\* Cartridge::save into a writer of capacity cap that holds buf.
CartridgeSave(c, buf, cap) ==
  SaveEnd(
    SaveChunks(
      WriteEach(
        CartridgeHeaderSave(
          [CartridgeHeaderDefault EXCEPT
             !.name_size = AsU8(BLen(c.name)),
             !.desc_size = AsU16(BLen(c.desc)),
             !.author_size = AsU8(BLen(c.author))],
          buf, cap),
        cap, <<One(c.version), c.name, c.desc, c.author>>),
      CartridgeChunks(c), cap),
    cap)

----------------------------------------------------------------------------
(* common: Size, Coord, CoordIter, Error *)

\* Size::new
SizeNew(width, height) == [width |-> width, height |-> height]

\* Coord::new
CoordNew(x, y) == [x |-> x, y |-> y]

\* Option<T>
Some(v) == [some |-> TRUE, val |-> v]

None == [some |-> FALSE]

\* Error::new_invalid_index
InvalidIndex(index, lenght) ==
  [kind |-> "InvalidIndex", index |-> index, lenght |-> lenght]

\* Error::new_invalid_coord
InvalidCoord(coord, size) ==
  [kind |-> "InvalidCoord", coord |-> coord, size |-> size]

\* The panic of an array indexed at or beyond its length: the call does not
\* return and the program is over.
IndexOutOfBounds(index, len) ==
  [ok |-> FALSE, panic |-> [index |-> index, len |-> len]]

\* CoordIter::new
CoordIterNew(size) == [size |-> size, coord |-> CoordNew(0, 0)]

\* CoordIter::next with y bounded by the height.
CoordAdvancedByHeight(size, coord) ==
  IF coord.y + 1 = size.height THEN CoordNew(coord.x + 1, 0)
  ELSE CoordNew(coord.x, coord.y + 1)

\* The coord field after `self.coord.y += 1` and the test that follows it.
CoordAdvanced(size, coord) ==
  IF coord.y + 1 = size.width THEN CoordNew(coord.x + 1, 0)
  ELSE CoordNew(coord.x, coord.y + 1)

\* CoordIter::next: the item returned and the iterator after the call.
CoordIterNext(it) ==
  IF it.coord.x = it.size.height THEN [item |-> None, iter |-> it]
  ELSE [item |-> Some(it.coord),
        iter |-> [it EXCEPT !.coord = CoordAdvanced(it.size, it.coord)]]

----------------------------------------------------------------------------
(* graphic, machine/screen.rs, map: the containers *)

SCREEN_WIDTH == 640
SCREEN_HEIGHT == 384
GLYPH_WIDTH == 8
GLYPH_HEIGHT == 8
MAP_WIDTH == 320
MAP_HEIGHT == 192
NUM_COLORS_IN_PALETTE == 16
NUM_GLYPHS_IN_FONT == 256

\* Color::new
ColorNew(red, green, blue) == [red |-> red, green |-> green, blue |-> blue]

\* Color::default
ColorDefault == ColorNew(0, 0, 0)

\* An array or Vec whose elements all hold the default of their type is kept
\* as the empty function; cells holds the elements that differ from it.
NoCells == [i \in {} |-> 0]

\* Glyph::default
GlyphDefault == [kind |-> "Glyph", cells |-> NoCells]

\* Screen::default
ScreenDefault == [kind |-> "Screen", cells |-> NoCells]

\* Map::default
MapDefault == [kind |-> "Map", cells |-> NoCells]

\* Palette::new
PaletteNew(num_colors) ==
  [kind |-> "Palette", len |-> num_colors, cells |-> NoCells]

\* Palette::default
PaletteDefault == PaletteNew(NUM_COLORS_IN_PALETTE)

\* Font::new
FontNew(glyph_size, num_glyphs) ==
  [kind |-> "Font", glyph_size |-> glyph_size, len |-> num_glyphs,
   cells |-> NoCells]

\* Font::default
FontDefault == FontNew(SizeNew(16, 16), NUM_GLYPHS_IN_FONT)

\* width() of Screen, Glyph and Map
Width(g) ==
  CASE g.kind = "Screen" -> SCREEN_WIDTH
    [] g.kind = "Glyph" -> GLYPH_WIDTH
    [] g.kind = "Map" -> MAP_WIDTH

\* height() of Screen, Glyph and Map
Height(g) ==
  CASE g.kind = "Screen" -> SCREEN_HEIGHT
    [] g.kind = "Glyph" -> GLYPH_HEIGHT
    [] g.kind = "Map" -> MAP_HEIGHT

\* size() of Screen, Glyph and Map
SizeOf(g) == SizeNew(Width(g), Height(g))

\* The length of the array or Vec behind the container.
Lenght(g) ==
  CASE g.kind = "Screen" -> SCREEN_WIDTH * SCREEN_HEIGHT
    [] g.kind = "Glyph" -> GLYPH_WIDTH * GLYPH_HEIGHT
    [] g.kind = "Map" -> MAP_WIDTH * MAP_HEIGHT
    [] g.kind \in {"Palette", "Font"} -> g.len

\* The value every element starts with.
DefaultOf(g) ==
  CASE g.kind \in {"Screen", "Palette"} -> ColorDefault
    [] g.kind = "Glyph" -> "Empty"
    [] g.kind = "Map" -> None
    [] g.kind = "Font" -> GlyphDefault

\* The container after `self.data[index] = value`, index below the length.
Put(g, index, value) ==
  IF value = DefaultOf(g)
  THEN [g EXCEPT !.cells = [i \in DOMAIN g.cells \ {index} |-> g.cells[i]]]
  ELSE [g EXCEPT !.cells = [i \in DOMAIN g.cells \cup {index} |->
                              IF i = index THEN value ELSE g.cells[i]]]

\* is_coord_valid that looks at x only.
IsCoordValidX(g, coord) == coord.x < Width(g)

\* is_coord_valid of Screen, Glyph and Map
IsCoordValid(g, coord) == coord.x < Width(g) /\ coord.y < Height(g)

\* get_index of Screen, Glyph and Map
GetIndex(g, coord) == coord.x * Width(g) + coord.y

\* is_index_valid of Palette and Font
IsIndexValid(g, index) == index < Lenght(g)

\* `self.data[index]`
Indexed(g, index) ==
  IF index >= Lenght(g) THEN IndexOutOfBounds(index, Lenght(g))
  ELSE Ok(IF index \in DOMAIN g.cells THEN g.cells[index] ELSE DefaultOf(g))

\* `self.data[index] = value`: what the call returns and the container
\* after it.
Assigned(g, index, value) ==
  IF index >= Lenght(g)
  THEN [ret |-> IndexOutOfBounds(index, Lenght(g)), grid |-> g]
  ELSE [ret |-> Ok(<<>>), grid |-> Put(g, index, value)]

\* Screen::get_pixel, Glyph::get_pixel, Map::get_tile
Get(g, coord) ==
  IF ~IsCoordValid(g, coord) THEN Err(InvalidCoord(coord, SizeOf(g)))
  ELSE Indexed(g, GetIndex(g, coord))

\* Screen::set_pixel, Glyph::set_pixel, Map::set_tile
Set(g, coord, value) ==
  IF ~IsCoordValid(g, coord)
  THEN [ret |-> Err(InvalidCoord(coord, SizeOf(g))), grid |-> g]
  ELSE Assigned(g, GetIndex(g, coord),
                IF g.kind = "Map" THEN Some(value) ELSE value)

\* Palette::get_color, Font::get_glyph
GetItem(g, index) ==
  IF ~IsIndexValid(g, index) THEN Err(InvalidIndex(index, Lenght(g)))
  ELSE Indexed(g, index)

\* Palette::set_color, Font::set_glyph
SetItem(g, index, value) ==
  IF ~IsIndexValid(g, index)
  THEN [ret |-> Err(InvalidIndex(index, Lenght(g))), grid |-> g]
  ELSE Assigned(g, index, value)

----------------------------------------------------------------------------
(* The inputs the operations are called on *)

\* Largest capacity of a slice-backed writer.
MaxCap == 6
\* Most chunk records in a stream handed to a reader.
MaxChunks == 2
\* Most bytes cut off the end of such a stream.
MaxCut == 2

\* "main()"
MainCode == Bytes(<<109, 97, 105, 110, 40, 41>>)

\* n bytes that start with main() and go on with the letter a.
Text(n) == Take(Cat(MainCode, Rep(97, n)), n)

\* n bytes that start 1, 2, 3 and go on with zeros.
Blob(n) == Take(Cat(Bytes(<<1, 2, 3>>), Rep(0, n)), n)

\* Four RGB colours, as in the tests of the repository.
Palette12 ==
  Bytes(<<0, 0, 0, 255, 255, 255, 180, 180, 180, 90, 90, 90>>)

Names == {<<>>, Bytes(<<104, 105>>), Rep(97, 255), Rep(97, 256)}

Descs == {<<>>, Bytes(<<100, 195, 167>>), Rep(97, 65535), Rep(97, 65537)}

Covers == {<<>>, Rep(0, 245760), Blob(3)}

Codes == {<<>>, MainCode, Text(131072), Text(131073)}

Fonts == {<<>>, Blob(16384), Blob(5)}

Palettes == {<<>>, Blob(4), Blob(5), Palette12, Blob(16)}

Maps == {<<>>, Blob(1), Blob(122880), Blob(122881)}

\* Cartridges as a caller builds them: the strings are well-formed UTF-8.
Carts ==
  {[CartridgeDefault EXCEPT !.version = v, !.name = n, !.desc = d,
                            !.author = a, !.code = c] :
     v \in {1, 11}, n \in Names, d \in Descs, a \in Names,
     c \in {<<>>, MainCode}}
  \cup
  {[CartridgeDefault EXCEPT !.cover = cv, !.code = c, !.font = f,
                            !.palette = p, !.map = m] :
     cv \in Covers, c \in Codes, f \in Fonts, p \in Palettes, m \in Maps}

PayloadSizes ==
  {0, 1, 4, 5, 8, 12, 16, 16383, 16384, 16385, 122880, 122881,
   131072, 131073, 245759, 245760, 245761}

\* Chunks as Chunk::new builds them, and chunks built field by field whose
\* header size is not the length of the payload.
Chunks ==
  {ChunkNew(t, Blob(n)) : t \in ChunkType, n \in PayloadSizes}
  \cup {ChunkNew(t, Palette12) : t \in ChunkType}
  \cup {[header |-> [chunk_type |-> t, size |-> n + 1], data |-> Blob(n)] :
          t \in ChunkType, n \in {0, 4, 16384}}

\* The inputs that a writer over a slice of at most MaxCap bytes is tried on.
SmallCarts ==
  {c \in Carts :
     /\ BLen(c.name) + BLen(c.desc) + BLen(c.author) <= 3
     /\ c.cover = <<>> /\ c.font = <<>> /\ c.map = <<>>
     /\ BLen(c.code) <= 6}

SmallChunks == {c \in Chunks : BLen(c.data) <= 12}

\* One chunk record on the wire: tag, declared size, payload.
Wire(tag, size, payload) == Cat(Cat(One(tag), Le32(size)), payload)

WireChunks ==
  {Wire(0, 0, <<>>),
   Wire(0, 1, One(9)),
   Wire(1, 245760, Rep(0, 245760)),
   Wire(1, 3, Blob(3)),
   Wire(2, 6, MainCode),
   Wire(2, 131073, Text(131073)),
   Wire(2, 131073, Rep(255, 131073)),
   Wire(3, 5, Blob(5)),
   Wire(4, 12, Palette12),
   Wire(4, 16, Blob(16)),
   Wire(5, 122881, Blob(122881)),
   Wire(6, 12, Palette12),
   Wire(255, 0, <<>>)}

RECURSIVE WireLists(_)
\* The concatenations of at most n wire chunks.
WireLists(n) ==
  IF n = 0 THEN {<<>>}
  ELSE WireLists(n - 1)
         \cup {Cat(l, w) : l \in WireLists(n - 1), w \in WireChunks}

\* Cartridge header, version byte and the three strings, on the wire.
Preambles ==
  {Bytes(<<1, 0, 0, 0, 0, 1>>),
   Bytes(<<1, 2, 0, 0, 0, 11, 104, 105>>),
   Bytes(<<5, 1, 3, 0, 2, 7, 97, 100, 195, 167, 109, 101>>),
   Bytes(<<1, 1, 0, 0, 0, 1, 255>>)}

\* Chunk records that a reader meets more than once in a stream, or in
\* either order.
RepeatedChunks ==
  {Wire(4, 12, Palette12), Wire(4, 5, Blob(5)), Wire(3, 5, Blob(5)),
   Wire(1, 3, Blob(3))}

\* Chunk records of a field that holds nothing, or text that is not UTF-8.
OddChunks ==
  {Wire(1, 0, <<>>), Wire(2, 0, <<>>), Wire(4, 0, <<>>),
   Wire(2, 2, Bytes(<<195, 40>>)), Wire(4, 4, Bytes(<<195, 40, 255, 0>>))}

\* Streams of two repeated chunks and an End chunk with a payload, and
\* streams of one odd chunk and an End chunk without.
LongStreams ==
  {Cat(Bytes(<<1, 0, 0, 0, 0, 1>>), Cat(Cat(x, y), Wire(0, 1, One(9)))) :
     x \in RepeatedChunks, y \in RepeatedChunks}
  \cup {Cat(Bytes(<<1, 0, 0, 0, 0, 1>>), Cat(w, Wire(0, 0, <<>>))) :
          w \in OddChunks}

Streams ==
  {Take(Cat(p, l), BLen(Cat(p, l)) - k) :
     p \in Preambles, l \in WireLists(MaxChunks), k \in 0..MaxCut}
  \cup {Take(p, k) : p \in Preambles, k \in 0..12}
  \cup WireLists(1)
  \cup LongStreams
  \cup OddChunks

\* Most set calls on one container.
MaxSets == 2
\* Most calls of next on one iterator.
MaxNext == 386
\* Largest width and height of a Size handed to CoordIter::new.
MaxSide == 3

\* The containers as their constructors build them.
Grids ==
  {ScreenDefault, MapDefault, GlyphDefault, PaletteDefault, PaletteNew(0),
   PaletteNew(4), FontDefault, FontNew(SizeNew(8, 8), 2)}

\* Containers addressed by coord, and containers addressed by index.
ByCoord == {"Screen", "Glyph", "Map"}

ByIndex == {"Palette", "Font"}

\* Coords around the limits of the container: first and last row and column,
\* and the first ones beyond the height and the width.
TestCoords(g) ==
  {CoordNew(x, y) : x \in {0, Height(g) - 1, Height(g), Width(g)},
                    y \in {0, Height(g) - 1, Height(g)}}

\* Indexes around the length of the container.
TestIndexes(g) == {0, Lenght(g) - 1, Lenght(g), Lenght(g) + 1} \cap Nat

\* Values to set: one that is the default of the element type and one that
\* is not.
Values(g) ==
  CASE g.kind \in {"Screen", "Palette"} -> {ColorDefault, ColorNew(255, 0, 90)}
    [] g.kind = "Glyph" -> {"Empty", "Solid"}
    [] g.kind = "Map" ->
         {[glyph |-> GlyphDefault, color |-> ColorDefault],
          [glyph |-> Put(GlyphDefault, 0, "Solid"), color |-> ColorNew(255, 0, 90)]}
    [] g.kind = "Font" -> {GlyphDefault, Put(GlyphDefault, 0, "Solid")}

\* Cartridge headers with each field at its least, its default and its
\* greatest value.
Headers ==
  {[cart_version |-> v, name_size |-> n, desc_size |-> d, author_size |-> a] :
     v \in {0, DEFAULT_CART_FILE_VERSION, 255},
     n \in {0, DEFAULT_NAME_SIZE, 255},
     d \in {0, 255, 256, DEFAULT_DESC_SIZE, 65535},
     a \in {0, DEFAULT_AUTHOR_SIZE, 255}}

----------------------------------------------------------------------------
(* The calls *)

\* The result of a call as its caller sees it: Ok(value) or Err(error).
Returned(r) == IF r.ok THEN Ok(r.val) ELSE Err(r.err)

\* Where a reader may stand after a call: a read_exact that fails leaves a
\* Cursor at the position of the failed read or at the end of its buffer,
\* depending on the version of the standard library.
PositionsAfter(r, buf) ==
  IF ~r.ok /\ r.err = Io THEN {r.pos, BLen(buf)} ELSE {r.pos}

NoCall == [ok |-> FALSE, err |-> [kind |-> "NoCall"]]

NoSave(c) == [n |-> 0, cart |-> c, ret |-> NoCall, writer |-> <<>>]

\* A caller that holds the container g and has not called anything on it.
Holding(g) ==
  /\ grid = g
  /\ gprev = g
  /\ op = "none"
  /\ at = CoordNew(0, 0)
  /\ val = <<>>
  /\ out = NoCall
  /\ before = [op |-> "none", at |-> CoordNew(0, 0), val |-> <<>>,
               out |-> NoCall]
  /\ iter = CoordIterNew(SizeNew(0, 0))
  /\ count = 0
  /\ sets = 0

\* The codec takes no part in the calls on the containers.
CodecIdle ==
  /\ arg = 0
  /\ hdr = CartridgeHeaderDefault
  /\ cart = CartridgeDefault
  /\ chunk = ChunkDefault
  /\ stream = <<>>
  /\ wcap = NoLimit
  /\ call = "none"
  /\ ret = NoCall
  /\ writer = <<>>
  /\ rpos = 0
  /\ prev = NoSave(CartridgeDefault)

\* A caller that holds a cartridge, a chunk, a stream or a byte.
Built ==
  /\ \/ /\ \/ cart \in Carts /\ wcap = NoLimit
           \/ cart \in SmallCarts /\ wcap \in 0..MaxCap
        /\ chunk = ChunkDefault /\ stream = <<>> /\ arg = 0
     \/ /\ \/ chunk \in Chunks /\ wcap = NoLimit
           \/ chunk \in SmallChunks /\ wcap \in 0..MaxCap
        /\ cart = CartridgeDefault /\ stream = <<>> /\ arg = 0
     \/ /\ stream \in Streams
        /\ wcap = NoLimit
        /\ cart = CartridgeDefault /\ chunk = ChunkDefault /\ arg = 0
     \/ /\ arg \in Byte
        /\ wcap = NoLimit
        /\ cart = CartridgeDefault /\ chunk = ChunkDefault /\ stream = <<>>
  /\ hdr = CartridgeHeaderDefault
  /\ call = "none"
  /\ ret = NoCall
  /\ writer = <<>>
  /\ rpos = 0
  /\ prev = NoSave(cart)
  /\ Holding(GlyphDefault)

\* A caller that holds a cartridge header.
HeaderBuilt ==
  /\ hdr \in Headers
  /\ wcap \in {NoLimit} \cup 0..MaxCap
  /\ arg = 0
  /\ cart = CartridgeDefault
  /\ chunk = ChunkDefault
  /\ stream = <<>>
  /\ call = "none"
  /\ ret = NoCall
  /\ writer = <<>>
  /\ rpos = 0
  /\ prev = NoSave(cart)
  /\ Holding(GlyphDefault)

Init == Built \/ HeaderBuilt

\* A from_reader call with the outcome r.
Reads(r) ==
  /\ ret' = Returned(r)
  /\ rpos' \in PositionsAfter(r, stream)
  /\ UNCHANGED <<arg, hdr, cart, chunk, stream, wcap, writer, prev, machine>>

\* A save call with the outcome r.
Writes(r) ==
  /\ ret' = Returned(r)
  /\ writer' = r.buf

\* ChunkType::try_from(arg)
CallTryFrom ==
  /\ call = "none"
  /\ call' = "ChunkType::try_from"
  /\ ret' = Returned(TryFrom(arg))
  /\ UNCHANGED <<arg, hdr, cart, chunk, stream, wcap, writer, rpos, prev, machine>>

\* ChunkHeader::from_reader(&mut Cursor::new(stream))
CallChunkHeaderFromReader ==
  /\ call = "none" \/ (call = "set_position" /\ prev.n = 0)
  /\ call' = "ChunkHeader::from_reader"
  /\ Reads(ChunkHeaderFromReader(stream, 0))

\* chunk.header.save(&mut writer), the writer fresh
CallChunkHeaderSave ==
  /\ call = "none"
  /\ call' = "ChunkHeader::save"
  /\ Writes(ChunkHeaderSave(chunk.header, <<>>, wcap))
  /\ UNCHANGED <<arg, hdr, cart, chunk, stream, wcap, rpos, prev, machine>>

\* Chunk::from_reader(&mut Cursor::new(stream))
CallChunkFromReader ==
  /\ call = "none" \/ (call = "set_position" /\ prev.n = 0)
  /\ call' = "Chunk::from_reader"
  /\ Reads(ChunkFromReader(stream, 0))

\* chunk.save(&mut writer), the writer fresh
CallChunkSave ==
  /\ call = "none"
  /\ call' = "Chunk::save"
  /\ Writes(ChunkSave(chunk, <<>>, wcap))
  /\ UNCHANGED <<arg, hdr, cart, chunk, stream, wcap, rpos, prev, machine>>

\* Cartridge::from_reader(&mut Cursor::new(stream))
CallCartridgeFromReader ==
  /\ call = "none" \/ (call = "set_position" /\ prev.n > 0)
  /\ call' = "Cartridge::from_reader"
  /\ Reads(CartridgeFromReader(stream, 0))

\* cart.save(&mut writer), the writer fresh; a caller may save a second time.
CallCartridgeSave ==
  /\ call \in {"none", "Cartridge::save"}
  /\ prev.n < 2
  /\ call' = "Cartridge::save"
  /\ Writes(CartridgeSave(cart, <<>>, wcap))
  /\ cart' = SelfAfterSave(cart)
  /\ prev' = [n |-> prev.n + 1, cart |-> prev.cart,
              ret |-> ret, writer |-> writer]
  /\ UNCHANGED <<arg, hdr, chunk, stream, wcap, rpos, machine>>

\* new_cart.save(&mut writer), the writer fresh, new_cart the cartridge that
\* Cartridge::from_reader has just returned
CallCartridgeSaveDecoded ==
  /\ call = "Cartridge::from_reader"
  /\ ret.ok
  /\ prev.n = 0
  /\ call' = "Cartridge::save"
  /\ Writes(CartridgeSave(ret.val, <<>>, wcap))
  /\ cart' = SelfAfterSave(ret.val)
  /\ prev' = [n |-> 1, cart |-> ret.val, ret |-> ret, writer |-> writer]
  /\ UNCHANGED <<arg, hdr, chunk, stream, wcap, rpos, machine>>

\* hdr.save(&mut writer), the writer fresh
CallCartridgeHeaderSave ==
  /\ call = "none"
  /\ call' = "CartridgeHeader::save"
  /\ Writes(CartridgeHeaderSave(hdr, <<>>, wcap))
  /\ UNCHANGED <<arg, hdr, cart, chunk, stream, wcap, rpos, prev, machine>>

\* CartridgeHeader::from_reader(&mut Cursor::new(bytes)), the bytes those of
\* the stream or those that header.save has just left in its writer
CallCartridgeHeaderFromReader ==
  /\ call \in {"none", "CartridgeHeader::save"}
  /\ call' = "CartridgeHeader::from_reader"
  /\ \E buf \in {IF call = "none" THEN stream ELSE writer} :
       /\ stream' = buf
       /\ ret' = Returned(CartridgeHeaderFromReader(buf, 0))
       /\ rpos' \in PositionsAfter(CartridgeHeaderFromReader(buf, 0), buf)
  /\ UNCHANGED <<arg, hdr, cart, chunk, wcap, writer, prev, machine>>

\* cursor.set_position(0) on the writer of a save call, to read back with
\* Cartridge::from_reader what Cartridge::save wrote, and with the readers of
\* chunk.rs what its writers wrote.
SetPosition ==
  /\ call \in {"Cartridge::save", "Chunk::save", "ChunkHeader::save"}
  /\ call' = "set_position"
  /\ stream' = writer
  /\ rpos' = 0
  /\ UNCHANGED <<arg, hdr, cart, chunk, wcap, ret, writer, prev, machine>>

Next ==
  \/ CallTryFrom
  \/ CallChunkHeaderFromReader
  \/ CallChunkHeaderSave
  \/ CallChunkFromReader
  \/ CallChunkSave
  \/ CallCartridgeFromReader
  \/ CallCartridgeSave
  \/ CallCartridgeSaveDecoded
  \/ CallCartridgeHeaderSave
  \/ CallCartridgeHeaderFromReader
  \/ SetPosition

Spec == Init /\ [][Next]_vars

----------------------------------------------------------------------------
(* The calls on the containers and on CoordIter *)

MachineInit == CodecIdle /\ \E g \in Grids : Holding(g)

\* The call that ran last, as the next call remembers it.
ThisCall == [op |-> op, at |-> at, val |-> val, out |-> out]

\* set_pixel / set_tile with the outcome r
Sets(r) ==
  /\ grid' = r.grid
  /\ out' = r.ret
  /\ gprev' = grid
  /\ op' = "set"
  /\ sets' = sets + 1
  /\ before' = ThisCall
  /\ UNCHANGED <<iter, count, codec>>

\* get_pixel / get_tile with the outcome r
Gets(r) ==
  /\ out' = r
  /\ gprev' = grid
  /\ op' = "get"
  /\ before' = ThisCall
  /\ UNCHANGED <<grid, val, sets, iter, count, codec>>

\* grid.set_pixel(coord, value), grid.set_tile(coord, value)
CallSet ==
  /\ op \in {"none", "set"}
  /\ "panic" \notin DOMAIN out
  /\ grid.kind \in ByCoord
  /\ sets < MaxSets
  /\ \E coord \in TestCoords(grid), value \in Values(grid) :
       /\ at' = coord
       /\ val' = value
       /\ Sets(Set(grid, coord, value))

\* grid.get_pixel(coord), grid.get_tile(coord)
CallGet ==
  /\ op \in {"none", "set"}
  /\ "panic" \notin DOMAIN out
  /\ grid.kind \in ByCoord
  /\ \E coord \in TestCoords(grid) :
       /\ at' = coord
       /\ Gets(Get(grid, coord))

\* grid.set_color(index, value), grid.set_glyph(index, value)
CallSetItem ==
  /\ op \in {"none", "set"}
  /\ "panic" \notin DOMAIN out
  /\ grid.kind \in ByIndex
  /\ sets < MaxSets
  /\ \E index \in TestIndexes(grid), value \in Values(grid) :
       /\ at' = index
       /\ val' = value
       /\ Sets(SetItem(grid, index, value))

\* grid.get_color(index), grid.get_glyph(index)
CallGetItem ==
  /\ op \in {"none", "set"}
  /\ "panic" \notin DOMAIN out
  /\ grid.kind \in ByIndex
  /\ \E index \in TestIndexes(grid) :
       /\ at' = index
       /\ Gets(GetItem(grid, index))

\* grid.coords()
CallCoords ==
  /\ op = "none"
  /\ grid.kind \in ByCoord
  /\ iter' = CoordIterNew(SizeOf(grid))
  /\ op' = "coords"
  /\ UNCHANGED <<grid, gprev, at, val, out, before, count, sets, codec>>

\* CoordIter::new(size)
CallCoordIterNew ==
  /\ op = "none"
  /\ grid = GlyphDefault
  /\ \E w \in 0..MaxSide, h \in 0..MaxSide :
       iter' = CoordIterNew(SizeNew(w, h))
  /\ op' = "CoordIter::new"
  /\ UNCHANGED <<grid, gprev, at, val, out, before, count, sets, codec>>

\* iter.next()
CallNext ==
  /\ op \in {"coords", "CoordIter::new", "next"}
  /\ count < MaxNext
  /\ iter' = CoordIterNext(iter).iter
  /\ out' = CoordIterNext(iter).item
  /\ count' = count + 1
  /\ op' = "next"
  /\ before' = ThisCall
  /\ UNCHANGED <<grid, gprev, at, val, sets, codec>>

\* grid.get_pixel(coord), grid.get_tile(coord) on the coord that
\* grid.coords() has just yielded
CallGetYielded ==
  /\ op = "next"
  /\ out # None
  /\ grid.kind \in ByCoord
  /\ iter.size = SizeOf(grid)
  /\ at' = out.val
  /\ Gets(Get(grid, out.val))

MachineNext ==
  \/ CallSet
  \/ CallGet
  \/ CallSetItem
  \/ CallGetItem
  \/ CallCoords
  \/ CallCoordIterNew
  \/ CallNext
  \/ CallGetYielded

MachineSpec == MachineInit /\ [][MachineNext]_vars

----------------------------------------------------------------------------
(* The terms of the properties *)

\* The payload sizes the format allows for each chunk type.
LegalSize(t, n) ==
  CASE t = "End" -> n = 0
    [] t = "Cover" -> n \in {0, 245760}
    [] t = "Font" -> n \in {0, 16384}
    [] t = "Palette" -> n \in {0, 4, 8, 16}
    [] t = "Code" -> n \in 0..131072
    [] t = "Map" -> n \in 0..122880

\* The set of sizes an InvalidChunkSize error names for a type.
LegalSet(t) ==
  CASE t = "End" -> <<0>>
    [] t = "Cover" -> <<0, 245760>>
    [] t = "Font" -> <<0, 16384>>
    [] t = "Palette" -> <<0, 4, 8, 16>>

Enumerated == {"End", "Cover", "Font", "Palette"}

\* A cartridge whose fields have the sizes the format allows.
LegalCart(c) ==
  /\ BLen(c.name) <= 255 /\ BLen(c.desc) <= 65535 /\ BLen(c.author) <= 255
  /\ LegalSize("Cover", BLen(c.cover))
  /\ LegalSize("Font", BLen(c.font))
  /\ LegalSize("Palette", BLen(c.palette))
  /\ LegalSize("Map", BLen(c.map))
  /\ LegalSize("Code", BLen(c.code))

\* A chunk as Chunk::new builds it: the header size is the payload length.
WellFormed(c) == c.header.size = BLen(c.data)

EndWire == Bytes(<<0, 0, 0, 0, 0>>)

\* The bytes the format puts before the chunks of the cartridge c.
WirePreamble(c) ==
  Cat(Bytes(<<1, BLen(c.name) % 256, BLen(c.desc) % 256,
              (BLen(c.desc) \div 256) % 256, BLen(c.author) % 256,
              c.version>>),
      Cat(c.name, Cat(c.desc, c.author)))

\* The chunk the format writes for a field: nothing when it is empty.
WireField(tag, data) ==
  IF data = <<>> THEN <<>>
  ELSE Cat(Bytes(<<tag, BLen(data) % 256, (BLen(data) \div 256) % 256,
                   (BLen(data) \div 65536) % 256,
                   (BLen(data) \div 16777216) % 256>>),
           data)

\* The chunks of the non-empty fields in the order Cover, Code, Font,
\* Palette, Map.
WireFields(c) ==
  Cat(WireField(1, c.cover),
      Cat(WireField(2, c.code),
          Cat(WireField(3, c.font),
              Cat(WireField(4, c.palette), WireField(5, c.map)))))

Saved == call = "Cartridge::save" /\ wcap = NoLimit

----------------------------------------------------------------------------
(* The properties *)

\* C1: round trip.  For every cartridge with legal field sizes,
\* Cartridge::save into a growing writer succeeds, and
\* Cartridge::from_reader on the bytes written returns a cartridge equal to
\* it in all nine fields.
C1_RoundTrip ==
  /\ (Saved /\ LegalCart(cart)) =>
       /\ ret.ok
       /\ CartridgeFromReader(writer, 0).ok
       /\ CartridgeFromReader(writer, 0).val = cart
  /\ (/\ call = "Cartridge::from_reader" /\ prev.n > 0
      /\ wcap = NoLimit /\ LegalCart(cart)) => ret = Ok(cart)

\* C2: size gate of the enumerated sizes on encode.  Chunk::save of an End,
\* Cover, Font or Palette chunk whose payload length is outside the legal
\* set of its type fails with InvalidChunkSize carrying the type, the length
\* and the legal set.
C2_EnumeratedSizeGate ==
  (/\ call = "Chunk::save"
   /\ WellFormed(chunk)
   /\ chunk.header.chunk_type \in Enumerated
   /\ ~LegalSize(chunk.header.chunk_type, BLen(chunk.data)))
  => /\ ~ret.ok
     /\ ret.err = InvalidChunkSize(chunk.header.chunk_type, BLen(chunk.data),
                                   LegalSet(chunk.header.chunk_type))

\* C3: size gate of the variable sizes on encode.  Chunk::save of a Code
\* chunk longer than 131072 bytes or of a Map chunk longer than 122880 bytes
\* fails with InvalidChunkMaxSize carrying the type, the length and the
\* maximum, and no Code or Map chunk up to its maximum is rejected by the
\* size check.
C3_MaxSizeGate ==
  (/\ call = "Chunk::save"
   /\ WellFormed(chunk)
   /\ chunk.header.chunk_type \in {"Code", "Map"})
  => IF LegalSize(chunk.header.chunk_type, BLen(chunk.data))
     THEN ret.ok \/ ret.err = Io
     ELSE /\ ~ret.ok
          /\ ret.err =
               InvalidChunkMaxSize(
                 chunk.header.chunk_type, BLen(chunk.data),
                 IF chunk.header.chunk_type = "Code" THEN 131072 ELSE 122880)

\* C4: chunk wire layout.  For every chunk type and every payload of a
\* length legal for the type, Chunk::save into a growing writer succeeds and
\* writes exactly 5 + n bytes: the tag (End=0, Cover=1, Code=2, Font=3,
\* Palette=4, Map=5), n as a little-endian 32-bit integer, the n payload
\* bytes.
C4_ChunkWireLayout ==
  (/\ call = "Chunk::save" /\ wcap = NoLimit
   /\ WellFormed(chunk)
   /\ LegalSize(chunk.header.chunk_type, BLen(chunk.data)))
  => /\ ret.ok
     /\ BLen(writer) = 5 + BLen(chunk.data)
     /\ ByteAt(writer, 0) =
          (CASE chunk.header.chunk_type = "End" -> 0
             [] chunk.header.chunk_type = "Cover" -> 1
             [] chunk.header.chunk_type = "Code" -> 2
             [] chunk.header.chunk_type = "Font" -> 3
             [] chunk.header.chunk_type = "Palette" -> 4
             [] chunk.header.chunk_type = "Map" -> 5)
     /\ Flat(Slice(writer, 1, 4)) =
          << BLen(chunk.data) % 256, (BLen(chunk.data) \div 256) % 256,
             (BLen(chunk.data) \div 65536) % 256,
             (BLen(chunk.data) \div 16777216) % 256 >>
     /\ Drop(writer, 5) = chunk.data

\* Where the chunks start in a stream that holds a cartridge header.
ChunksStart(s) ==
  6 + ByteAt(s, 1) + ByteAt(s, 2) + 256 * ByteAt(s, 3) + ByteAt(s, 4)

\* The stream holds a header, a version byte and three well-formed strings,
\* and at least one byte after them.
StringsRead(s) ==
  /\ BLen(s) >= 5
  /\ BLen(s) > ChunksStart(s)
  /\ IsUtf8(Slice(s, 6, ByteAt(s, 1)))
  /\ IsUtf8(Slice(s, 6 + ByteAt(s, 1), ByteAt(s, 2) + 256 * ByteAt(s, 3)))
  /\ IsUtf8(Slice(s, ChunksStart(s) - ByteAt(s, 4), ByteAt(s, 4)))

\* C5: unknown type rejection.  ChunkType::try_from maps 0, 1, 2, 3, 4, 5 to
\* End, Cover, Code, Font, Palette, Map and fails with InvalidChunkType(b)
\* on every other byte b; ChunkHeader::from_reader, Chunk::from_reader and
\* Cartridge::from_reader fail with InvalidChunkType(b) on a chunk whose tag
\* byte b is outside 0..5, and report no other byte that way.
C5_UnknownType ==
  /\ call = "ChunkType::try_from" =>
       ret = (CASE arg = 0 -> Ok("End")
                [] arg = 1 -> Ok("Cover")
                [] arg = 2 -> Ok("Code")
                [] arg = 3 -> Ok("Font")
                [] arg = 4 -> Ok("Palette")
                [] arg = 5 -> Ok("Map")
                [] OTHER -> Err(InvalidChunkType(arg)))
  /\ (/\ call \in {"ChunkHeader::from_reader", "Chunk::from_reader"}
      /\ stream # <<>>
      /\ ByteAt(stream, 0) \notin 0..5)
     => ret = Err(InvalidChunkType(ByteAt(stream, 0)))
  /\ (/\ call = "Cartridge::from_reader"
      /\ StringsRead(stream)
      /\ ByteAt(stream, ChunksStart(stream)) \notin 0..5)
     => ret = Err(InvalidChunkType(ByteAt(stream, ChunksStart(stream))))
  /\ (/\ call \in {"ChunkHeader::from_reader", "Chunk::from_reader",
                   "Cartridge::from_reader"}
      /\ ~ret.ok
      /\ ret.err.kind = "InvalidChunkType")
     => /\ rpos >= 1
        /\ ret.err.value = ByteAt(stream, rpos - 1)
        /\ ret.err.value \notin 0..5

\* Cartridge::from_reader has taken a chunk and then met the tag byte 6.
C5_Witness ==
  /\ call = "Cartridge::from_reader"
  /\ ret = Err(InvalidChunkType(6))
  /\ rpos > ChunksStart(stream) + 1

\* Cartridge header, version byte and well-formed strings, on the wire.
LegalPreambles == {p \in Preambles : IsUtf8(Drop(p, 6))}

\* Complete chunks of a legal size, none of them End, on the wire.
LegalWireChunks ==
  {Wire(1, 245760, Rep(0, 245760)), Wire(2, 6, MainCode),
   Wire(4, 16, Blob(16))}

RECURSIVE LegalWireLists(_)
LegalWireLists(n) ==
  IF n = 0 THEN {<<>>}
  ELSE LegalWireLists(n - 1)
         \cup {Cat(l, w) : l \in LegalWireLists(n - 1), w \in LegalWireChunks}

\* The streams of a whole cartridge made of these.
CompleteStreams ==
  {Cat(Cat(p, l), EndWire) :
     p \in LegalPreambles, l \in LegalWireLists(MaxChunks)}

\* The stream is one of the complete streams cut short.
Truncated(s) ==
  \E whole \in CompleteStreams :
    BLen(s) < BLen(whole) /\ Take(whole, BLen(s)) = s

\* C6: truncation.  Cartridge::from_reader on a stream that ends inside the
\* cartridge header, a string, a chunk header or a chunk payload, or after
\* complete chunks with no End chunk, returns an Io error.
C6_Truncation ==
  (call = "Cartridge::from_reader" /\ Truncated(stream)) => ret = Err(Io)

\* C7: empty-field omission.  Cartridge::save of a cartridge whose strings
\* and payload fields are all empty succeeds and writes exactly 11 bytes:
\* 1,0,0,0,0, the version byte, and the End chunk 0,0,0,0,0.
C7_EmptyCartridge ==
  (/\ Saved
   /\ cart = [CartridgeDefault EXCEPT !.version = cart.version])
  => /\ ret.ok
     /\ writer = Bytes(<<1, 0, 0, 0, 0, cart.version, 0, 0, 0, 0, 0>>)

RECURSIVE ChunkTags(_)
\* The tag bytes of the chunk records that the bytes s consist of.
ChunkTags(s) ==
  IF s = <<>> THEN <<>>
  ELSE IF BLen(s) < 5 THEN <<-1>>
  ELSE <<ByteAt(s, 0)>> \o ChunkTags(Drop(s, 5 + FromLe(Slice(s, 1, 4))))

\* C9: terminator.  Writing the closing End chunk never fails a size check,
\* and the output of a successful Cartridge::save ends with one End chunk
\* 0,0,0,0,0 and holds no End chunk before it.
C9_Terminator ==
  /\ call = "Cartridge::save" =>
       ~(/\ ~ret.ok
         /\ ret.err.kind = "InvalidChunkSize"
         /\ ret.err.type = "End")
  /\ (call = "Cartridge::save" /\ ret.ok) =>
       LET tags == ChunkTags(Drop(writer, BLen(WirePreamble(cart)))) IN
         /\ tags # <<>>
         /\ \A i \in 1..Len(tags) : tags[i] = 0 <=> i = Len(tags)
         /\ Slice(writer, BLen(writer) - 5, 5) = EndWire

HiCart ==
  [CartridgeDefault EXCEPT !.version = 11, !.name = Bytes(<<104, 105>>),
                           !.code = MainCode]

\* The bytes the format gives it.
HiBytes ==
  Bytes(<<1, 2, 0, 0, 0, 11, 104, 105,
          2, 6, 0, 0, 0, 109, 97, 105, 110, 40, 41,
          0, 0, 0, 0, 0>>)

\* C11: concrete example.  The cartridge "hi" of version 11 with the code
\* main() and nothing else is saved successfully as 1,2,0,0,0, 11, 'h','i',
\* the Code chunk 2, 6,0,0,0, "main()" and the End chunk 0,0,0,0,0, and
\* Cartridge::from_reader on exactly these bytes returns that cartridge.
C11_ConcreteExample ==
  /\ (Saved /\ cart = HiCart) => (ret.ok /\ writer = HiBytes)
  /\ (call = "Cartridge::from_reader" /\ stream = HiBytes)
     => ret = Ok(HiCart)

\* The strings of the cartridge fit the size fields of the header.
StringsFit(c) ==
  BLen(c.name) <= 255 /\ BLen(c.desc) <= 65535 /\ BLen(c.author) <= 255

\* C12: header contents on save.  For a cartridge whose name, desc and
\* author fit 255, 65535 and 255 bytes, Cartridge::save into a growing
\* writer writes first the format version 1, the byte lengths of name, desc
\* (16 bit, little-endian) and author, then the version of the cartridge,
\* then the bytes of name, desc and author.
C12_HeaderContents ==
  (Saved /\ StringsFit(cart))
  => Take(writer, 6 + BLen(cart.name) + BLen(cart.desc) + BLen(cart.author))
       = Cat(Bytes(<<1, BLen(cart.name), BLen(cart.desc) % 256,
                     BLen(cart.desc) \div 256, BLen(cart.author),
                     cart.version>>),
             Cat(cart.name, Cat(cart.desc, cart.author)))

\* A cartridge of version 11 saved with a name of 255 bytes, a desc of 65535
\* bytes and the author "hi": none of the sizes is a default.
C12_Witness ==
  /\ Saved
  /\ cart.version = 11
  /\ BLen(cart.name) = 255
  /\ BLen(cart.desc) = 65535
  /\ BLen(cart.author) = 2
  /\ BLen(writer) >= 6 + 255 + 65535 + 2

\* The cartridge that a stream of strings and an End chunk holds.
CartOfStrings(s) ==
  [CartridgeDefault EXCEPT
     !.version = ByteAt(s, 5),
     !.name = Slice(s, 6, ByteAt(s, 1)),
     !.desc = Slice(s, 6 + ByteAt(s, 1), ByteAt(s, 2) + 256 * ByteAt(s, 3)),
     !.author = Slice(s, ChunksStart(s) - ByteAt(s, 4), ByteAt(s, 4))]

RECURSIVE EndPos(_, _)
\* Where the first chunk tagged End starts, walking the chunk records of s
\* from position pos.
EndPos(s, pos) ==
  IF BLen(s) < pos + 5 \/ ByteAt(s, pos) = 0 THEN pos
  ELSE EndPos(s, pos + 5 + FromLe(Slice(s, pos + 1, 4)))

\* C13: decode stops at End.  A successful Cartridge::from_reader leaves
\* the reader just after the 5 bytes of the first End chunk, and on a
\* stream whose first chunk is the End chunk 0,0,0,0,0 it succeeds and
\* returns the same cartridge whatever follows these 5 bytes.
C13_StopsAtEnd ==
  /\ (call = "Cartridge::from_reader" /\ ret.ok)
     => rpos = EndPos(stream, ChunksStart(stream)) + 5
  /\ (/\ call = "Cartridge::from_reader"
      /\ StringsRead(stream)
      /\ Slice(stream, ChunksStart(stream), 5) = EndWire)
     => /\ ret = Ok(CartOfStrings(stream))
        /\ rpos = ChunksStart(stream) + 5

RECURSIVE LastPayload(_, _, _)
\* The payload of the last chunk tagged tag before the first End chunk of
\* the chunk records s, and last if there is none.
LastPayload(s, tag, last) ==
  IF BLen(s) < 5 \/ ByteAt(s, 0) = 0 THEN last
  ELSE LastPayload(Drop(s, 5 + FromLe(Slice(s, 1, 4))), tag,
                   IF ByteAt(s, 0) = tag
                   THEN Slice(s, 5, FromLe(Slice(s, 1, 4)))
                   ELSE last)

\* C14: last write wins.  In the cartridge that Cartridge::from_reader
\* returns, each field is the payload of the last chunk of its type before
\* the End chunk, and empty when the stream holds no chunk of that type.
C14_LastWriteWins ==
  (call = "Cartridge::from_reader" /\ ret.ok)
  => /\ ret.val.cover = LastPayload(Drop(stream, ChunksStart(stream)), 1, <<>>)
     /\ ret.val.code = LastPayload(Drop(stream, ChunksStart(stream)), 2, <<>>)
     /\ ret.val.font = LastPayload(Drop(stream, ChunksStart(stream)), 3, <<>>)
     /\ ret.val.palette
          = LastPayload(Drop(stream, ChunksStart(stream)), 4, <<>>)
     /\ ret.val.map = LastPayload(Drop(stream, ChunksStart(stream)), 5, <<>>)

\* A stream of two Palette chunks, of 12 and of 5 bytes, has been accepted
\* and the palette is that of the second.
C14_Witness ==
  /\ call = "Cartridge::from_reader"
  /\ ret.ok
  /\ stream = Cat(Bytes(<<1, 0, 0, 0, 0, 1>>),
                  Cat(Cat(Wire(4, 12, Palette12), Wire(4, 5, Blob(5))),
                      Wire(0, 1, One(9))))
  /\ ret.val.palette = Blob(5)
  /\ ret.val.font = <<>>

\* The type a tag byte stands for.
TagType(b) == <<"End", "Cover", "Code", "Font", "Palette", "Map">>[b + 1]

\* The stream starts with a whole chunk record: tag, size and payload.
CompleteChunk(s) ==
  /\ BLen(s) >= 5
  /\ ByteAt(s, 0) \in 0..5
  /\ ByteAt(s, 4) < 128
  /\ BLen(s) >= 5 + FromLe(Slice(s, 1, 4))

\* C15: size legality on decode.  Chunk::from_reader on a whole chunk
\* record succeeds if and only if the payload length is legal for the type,
\* and otherwise fails with InvalidChunkSize (End, Cover, Font, Palette) or
\* InvalidChunkMaxSize (Code, Map).
C15_DecodeLegality ==
  (call = "Chunk::from_reader" /\ CompleteChunk(stream))
  => IF LegalSize(TagType(ByteAt(stream, 0)), FromLe(Slice(stream, 1, 4)))
     THEN ret.ok
     ELSE /\ ~ret.ok
          /\ ret.err.kind
               = IF TagType(ByteAt(stream, 0)) \in Enumerated
                 THEN "InvalidChunkSize" ELSE "InvalidChunkMaxSize"
          /\ ret.err.type = TagType(ByteAt(stream, 0))
          /\ ret.err.size = FromLe(Slice(stream, 1, 4))

\* The cartridge whose only content is the palette of four colours.
PaletteCart == [CartridgeDefault EXCEPT !.palette = Palette12]

\* C16: palette of four RGB colours.  A Palette chunk with the 12 bytes of
\* four colours is accepted by Chunk::from_reader and by Chunk::save, and a
\* cartridge with that palette is saved by Cartridge::save and read back by
\* Cartridge::from_reader with the palette unchanged.
C16_PaletteOfFour ==
  /\ (call = "Chunk::from_reader" /\ stream = Wire(4, 12, Palette12))
     => ret = Ok(ChunkNew("Palette", Palette12))
  /\ (/\ call = "Chunk::save"
      /\ wcap = NoLimit
      /\ chunk = ChunkNew("Palette", Palette12))
     => (ret.ok /\ writer = Wire(4, 12, Palette12))
  /\ (Saved /\ cart = PaletteCart) => ret.ok
  /\ (call = "Cartridge::from_reader" /\ prev.n > 0 /\ cart = PaletteCart)
     => (ret.ok /\ ret.val.palette = Palette12)

\* The errors of Chunk::validate.
SizeErrors ==
  {"InvalidChunkSize", "InvalidChunkMaxSize", "MismatchedChunkSizes"}

\* C17: encode fails before writing.  When Chunk::save fails with
\* InvalidChunkSize, InvalidChunkMaxSize or MismatchedChunkSizes, the writer
\* holds no byte of the chunk.
C17_FailsBeforeWriting ==
  (call = "Chunk::save" /\ ~ret.ok /\ ret.err.kind \in SizeErrors)
  => writer = <<>>

\* Chunk::save has rejected a Code chunk with a payload, into a writer with
\* room for it.
C17_Witness ==
  /\ call = "Chunk::save"
  /\ wcap = NoLimit
  /\ ~ret.ok
  /\ ret.err.kind = "InvalidChunkMaxSize"
  /\ chunk.header.chunk_type = "Code"
  /\ BLen(chunk.data) = 12
  /\ writer = <<>>

RECURSIVE CodeIsText(_)
\* Every Code chunk among the whole chunk records of s, up to the first End
\* chunk or unknown tag, holds well-formed UTF-8.
CodeIsText(s) ==
  IF BLen(s) < 5 \/ ByteAt(s, 0) \notin 1..5 THEN TRUE
  ELSE IF BLen(s) < 5 + FromLe(Slice(s, 1, 4)) THEN TRUE
  ELSE /\ ByteAt(s, 0) = 2 => IsUtf8(Slice(s, 5, FromLe(Slice(s, 1, 4))))
       /\ CodeIsText(Drop(s, 5 + FromLe(Slice(s, 1, 4))))

\* C19: UTF-8 handling on decode.  Cartridge::from_reader fails with
\* FromUtf8 when the bytes of the name are not UTF-8, and when the payload
\* of a Code chunk, here the first chunk, is not UTF-8; it never fails
\* with FromUtf8 when the strings and the Code chunks are UTF-8, whatever
\* the payloads of the Cover, Font, Palette and Map chunks are.
C19_Utf8OnDecode ==
  /\ (/\ call = "Cartridge::from_reader"
      /\ BLen(stream) >= 6
      /\ BLen(stream) >= 6 + ByteAt(stream, 1)
      /\ ~IsUtf8(Slice(stream, 6, ByteAt(stream, 1))))
     => ret = Err(FromUtf8)
  /\ (/\ call = "Cartridge::from_reader"
      /\ StringsRead(stream)
      /\ CompleteChunk(Drop(stream, ChunksStart(stream)))
      /\ ByteAt(stream, ChunksStart(stream)) = 2
      /\ ~CodeIsText(Drop(stream, ChunksStart(stream))))
     => ret = Err(FromUtf8)
  /\ (/\ call = "Cartridge::from_reader"
      /\ StringsRead(stream)
      /\ CodeIsText(Drop(stream, ChunksStart(stream))))
     => ret # Err(FromUtf8)

\* C20: decode is order-independent and accepts empty chunks.
\* Cartridge::from_reader accepts chunks of legal sizes in any order before
\* the End chunk and each field of the cartridge it returns is the payload
\* of the chunk of its type; a Cover, Code, Font, Palette or Map chunk of
\* length zero is accepted and leaves its field empty.
C20_AnyOrder ==
  /\ (call = "Cartridge::from_reader" /\ stream \in CompleteStreams)
     => /\ ret.ok
        /\ ret.val.cover
             = LastPayload(Drop(stream, ChunksStart(stream)), 1, <<>>)
        /\ ret.val.code
             = LastPayload(Drop(stream, ChunksStart(stream)), 2, <<>>)
        /\ ret.val.palette
             = LastPayload(Drop(stream, ChunksStart(stream)), 4, <<>>)
  /\ (/\ call = "Cartridge::from_reader"
      /\ StringsRead(stream)
      /\ ByteAt(stream, ChunksStart(stream)) \in 1..5
      /\ Slice(stream, ChunksStart(stream) + 1, 9)
           = Bytes(<<0, 0, 0, 0, 0, 0, 0, 0, 0>>))
     => ret = Ok(CartOfStrings(stream))

\* C21: cartridge header codec.  CartridgeHeader::save writes exactly the 5
\* bytes cart_version, name_size, desc_size (low byte, high byte) and
\* author_size; CartridgeHeader::from_reader on these bytes returns an equal
\* header; on fewer than 5 bytes it fails with Io, and on 5 bytes or more it
\* returns the header those bytes hold.
C21_HeaderCodec ==
  /\ (call = "CartridgeHeader::save" /\ wcap = NoLimit)
     => /\ ret.ok
        /\ writer = Bytes(<<hdr.cart_version, hdr.name_size,
                            hdr.desc_size % 256, hdr.desc_size \div 256,
                            hdr.author_size>>)
  /\ (/\ call = "CartridgeHeader::from_reader"
      /\ wcap = NoLimit
      /\ writer # <<>>)
     => ret = Ok(hdr)
  /\ (call = "CartridgeHeader::from_reader" /\ BLen(stream) < 5)
     => ret = Err(Io)
  /\ (call = "CartridgeHeader::from_reader" /\ BLen(stream) >= 5)
     => ret = Ok([cart_version |-> ByteAt(stream, 0),
                  name_size |-> ByteAt(stream, 1),
                  desc_size |-> ByteAt(stream, 2) + 256 * ByteAt(stream, 3),
                  author_size |-> ByteAt(stream, 4)])

\* A header of version 0 with desc_size 256 and author_size 255 has been
\* saved and read back.
C21_Witness ==
  /\ call = "CartridgeHeader::from_reader"
  /\ writer = Bytes(<<0, 64, 0, 1, 255>>)
  /\ hdr.desc_size = 256
  /\ ret = Ok(hdr)

\* The width and the height of a container addressed by coord.
Wide(g) ==
  CASE g.kind = "Screen" -> 640 [] g.kind = "Map" -> 320 [] g.kind = "Glyph" -> 8

High(g) ==
  CASE g.kind = "Screen" -> 384 [] g.kind = "Map" -> 192 [] g.kind = "Glyph" -> 8

\* The coord is inside the width and the height of the container.
InRange(g, coord) == coord.x < Wide(g) /\ coord.y < High(g)

\* C22: out-of-range positions.  get and set of Glyph, Screen and Map with
\* x >= width or y >= height return InvalidCoord with the coord and the size
\* of the container; get and set of Palette and Font with index >= length
\* return InvalidIndex with the index and the length; the container is the
\* same after the call.
C22_OutOfRange ==
  /\ (/\ op \in {"set", "get"}
      /\ grid.kind \in ByCoord
      /\ ~InRange(grid, at))
     => /\ out = Err(InvalidCoord(at, [width |-> Wide(grid),
                                       height |-> High(grid)]))
        /\ grid = gprev
  /\ (/\ op \in {"set", "get"}
      /\ grid.kind \in ByIndex
      /\ at >= grid.len)
     => /\ out = Err(InvalidIndex(at, grid.len))
        /\ grid = gprev

\* A Screen that holds a pixel has rejected a set_pixel at x = 640.
C22_Witness ==
  /\ op = "set"
  /\ grid.kind = "Screen"
  /\ grid.cells # NoCells
  /\ at = CoordNew(640, 0)
  /\ out = Err(InvalidCoord(at, SizeNew(640, 384)))

\* C23: set then get.  For every coord with x < width and y < height,
\* set_pixel / set_tile returns Ok and a get at the same coord right after
\* it returns the value set (Some of the tile, on a Map).
C23_SetThenGet ==
  /\ (op = "set" /\ grid.kind \in ByCoord /\ InRange(grid, at))
     => out = Ok(<<>>)
  /\ (/\ op = "get"
      /\ before.op = "set"
      /\ grid.kind \in ByCoord
      /\ InRange(grid, at)
      /\ before.at = at)
     => out = Ok(IF grid.kind = "Map" THEN Some(before.val) ELSE before.val)

\* C24: coordinate iteration order.  On a Size of width w >= 1 and height
\* h >= 1 the k-th call of next returns the coord with x = (k - 1) div w
\* and y = (k - 1) mod w for k <= w * h, and None after that.
C24_IterationOrder ==
  (op = "next" /\ iter.size.width >= 1 /\ iter.size.height >= 1)
  => out = IF count <= iter.size.width * iter.size.height
           THEN Some(CoordNew((count - 1) \div iter.size.width,
                              (count - 1) % iter.size.width))
           ELSE None

\* The sixth call of next on a Size of 3 by 2 has returned the last coord.
C24_Witness ==
  /\ op = "next"
  /\ iter.size = SizeNew(3, 2)
  /\ count = 6
  /\ out = Some(CoordNew(1, 2))
  /\ before.out = Some(CoordNew(1, 1))

\* The save call was made on the cartridge that from_reader returned.
Decoded == prev.n = 1 /\ prev.ret.ok

\* C25: decode then encode is closed.  Cartridge::save of a cartridge that
\* Cartridge::from_reader returned succeeds, and from_reader on what it
\* wrote returns that cartridge again.
C25_DecodeThenEncode ==
  /\ (Saved /\ Decoded) => ret.ok
  /\ (call = "Cartridge::from_reader" /\ Decoded) => ret = Ok(prev.ret.val)

\* C26: iterated coords are valid coords.  Every coord that coords() of a
\* Screen, a Map or a Glyph yields has x < width and y < height, and a get
\* on it returns Ok.
C26_IteratedCoordsValid ==
  (op = "get" /\ before.op = "next") => (InRange(grid, at) /\ out.ok)

\* C27: a set touches one element only.  For a coord with x < width and
\* y < height the index x * width + y lies inside the array of
\* width * height elements and differs from the index of every other such
\* coord, and a set at the coord leaves what get returns at the others as
\* it was.
C27_SetTouchesOne ==
  (op = "set" /\ grid.kind \in ByCoord /\ InRange(grid, at))
  => /\ at.x * Wide(grid) + at.y < Wide(grid) * High(grid)
     /\ \A d \in TestCoords(grid) :
          (InRange(grid, d) /\ d # at)
          => /\ d.x * Wide(grid) + d.y # at.x * Wide(grid) + at.y
             /\ Get(grid, d) = Get(gprev, d)

\* C28: coordinate iteration terminates.  For every Size, empty ones too,
\* next returns None from the call after the first width * height calls on,
\* and a coord before that.
C28_IterationTerminates ==
  op = "next"
  => (out = None <=> count > iter.size.width * iter.size.height)

\* C29: oversized strings are not rejected on save.  For a cartridge whose
\* name or author is longer than 255 bytes or whose desc is longer than
\* 65535 bytes, Cartridge::save writes the lengths modulo 256, 65536 and 256
\* in the header and all the bytes of the three strings after the version,
\* and the only errors it returns are those of the size checks of chunks.
C29_OversizedStrings ==
  (Saved /\ ~StringsFit(cart))
  => /\ Take(writer,
             6 + BLen(cart.name) + BLen(cart.desc) + BLen(cart.author))
          = Cat(Bytes(<<1, BLen(cart.name) % 256, BLen(cart.desc) % 256,
                        (BLen(cart.desc) \div 256) % 256,
                        BLen(cart.author) % 256, cart.version>>),
                Cat(cart.name, Cat(cart.desc, cart.author)))
     /\ ~ret.ok => ret.err.kind \in {"InvalidChunkSize", "InvalidChunkMaxSize"}

\* A cartridge with a name of 256 bytes and a desc of 65537 bytes has been
\* saved: the header says 0 and 1.
C29_Witness ==
  /\ Saved
  /\ BLen(cart.name) = 256
  /\ BLen(cart.desc) = 65537
  /\ Take(writer, 5) = Bytes(<<1, 0, 1, 0, 0>>)
  /\ BLen(writer) >= 6 + 256 + 65537

\* The chunks of the non-empty fields that come before the field of type t
\* in the order Cover, Code, Font, Palette, Map.
FieldsBefore(c, t) ==
  Cat(IF t \in {"Code", "Font", "Palette", "Map"}
      THEN WireField(1, c.cover) ELSE <<>>,
      Cat(IF t \in {"Font", "Palette", "Map"}
          THEN WireField(2, c.code) ELSE <<>>,
          Cat(IF t \in {"Palette", "Map"}
              THEN WireField(3, c.font) ELSE <<>>,
              IF t = "Map" THEN WireField(4, c.palette) ELSE <<>>)))

\* C30: partial output on a failed save.  When Cartridge::save fails on the
\* size check of the chunk of a field, the writer holds the header, the
\* version, the strings and the chunks of the fields before that one and
\* nothing else: a proper prefix of the whole stream of the cartridge, with
\* no End chunk in it.
C30_PartialOutput ==
  (/\ Saved
   /\ ~ret.ok
   /\ ret.err.kind \in SizeErrors
   /\ ret.err.type # "End")
  => /\ writer = Cat(WirePreamble(cart), FieldsBefore(cart, ret.err.type))
     /\ BLen(writer)
          < BLen(Cat(WirePreamble(cart), Cat(WireFields(cart), EndWire)))
     /\ Take(Cat(WirePreamble(cart), Cat(WireFields(cart), EndWire)),
             BLen(writer)) = writer
     /\ \A i \in 1..Len(ChunkTags(Drop(writer, BLen(WirePreamble(cart))))) :
          ChunkTags(Drop(writer, BLen(WirePreamble(cart))))[i] # 0

\* A cartridge with a cover of 3 bytes and the code main() has been saved:
\* the Cover chunk is in the writer and the Code chunk has failed.
C30_Witness ==
  /\ Saved
  /\ cart.cover = Blob(3)
  /\ cart.code = MainCode
  /\ ~ret.ok
  /\ ret.err.kind = "InvalidChunkMaxSize"
  /\ BLen(writer) = 14

====
